---------------------------- MODULE Spec2Model ----------------------------
(***************************************************************************)
(* Settings views of the Sentry web client:                                *)
(*   - NewSettingsWarning (settingsLayout.jsx): translates a new-settings  *)
(*     URL back to the legacy settings URL and picks the kind of link,     *)
(*   - ProjectGeneralSettings (projectGeneralSettings.jsx): the permission *)
(*     gated "Remove Project" / "Transfer Project" rows,                   *)
(*   - TeamSettings.handleSubmitSuccess (teamSettings.jsx): the reload     *)
(*     after a team slug change.                                           *)
(*                                                                         *)
(* A JavaScript string is a sequence of one-character strings, so that     *)
(* regular-expression matching and String.prototype.replace are computed   *)
(* character by character, as the engine does.  A value that may be        *)
(* `undefined` is a set with at most one element: {} is undefined.         *)
(***************************************************************************)
EXTENDS Naturals, Sequences, FiniteSets

VARIABLES
  propsLocation,   \* SettingsLayout's this.props.location: {} or {[pathname |-> {} or {string}]}
  status,          \* NewSettingsWarning: "pending", "rendered" or "TypeError"
  oldLocation,     \* the legacy path ({} before the render)
  isRouter,        \* the routing mode flag
  replaceChain,    \* the value after each call of the .replace chain that ran
  linkProps,       \* [href, to], each {} (undefined) or {string}
  LinkWithFallback,\* "Link" (react-router) or "a"
  organization,    \* ProjectGeneralSettings: this.context.organization
  project,         \* this.state.data
  params,          \* this.props.params of the mounted view
  projectAdmin,    \* what renderBody put in the "Project Administration" panel
  model,           \* TeamSettings: the form model's field values
  saved,           \* the field ids the Form reported saved (its onSubmitSuccess calls), in order
  effects,         \* the calls handleSubmitSuccess made, in order
  state            \* TeamSettings' this.state

layoutVars ==
  <<propsLocation, status, oldLocation, replaceChain, isRouter, linkProps, LinkWithFallback>>
projectVars == <<organization, project, projectAdmin>>
teamVars == <<model, saved, effects, state>>
vars == <<layoutVars, projectVars, teamVars, params>>

---------------------------------------------------------------------------
(* Bounds of the model *)

\* how many path pieces follow the head of a generated pathname
MaxTail == 2

\* how many saves of a field the team form reports
MaxSubmits == 2

---------------------------------------------------------------------------
(* JavaScript strings *)

Undefined == {}
Some(x) == {x}
TheValue(opt) == CHOOSE x \in opt : TRUE

\* ToString(undefined), what RegExp.prototype.test sees for a missing pathname
UndefinedString == <<"u","n","d","e","f","i","n","e","d">> (* "undefined" *)

ToString(opt) == IF opt = Undefined THEN UndefinedString ELSE TheValue(opt)

\* the substring of s that starts at index i (1-based) and has the length of pat
\* is pat
MatchesAt(s, i, pat) ==
  /\ i >= 1
  /\ i + Len(pat) - 1 <= Len(s)
  /\ \A k \in 1..Len(pat) : s[i + k - 1] = pat[k]

\* String.prototype.indexOf, 1-based; 0 when pat does not occur
IndexOf(s, pat) ==
  LET hits == {i \in 1..(Len(s) + 1) : MatchesAt(s, i, pat)}
  IN IF hits = {} THEN 0 ELSE CHOOSE i \in hits : \A j \in hits : i <= j

Includes(s, pat) == IndexOf(s, pat) # 0

\* s from index i to its end
From(s, i) == SubSeq(s, i, Len(s))

\* String.prototype.replace(pat, rep) with a string pattern: the first
\* occurrence only, anywhere in s (rep has no $ patterns here)
ReplaceFirst(s, pat, rep) ==
  LET i == IndexOf(s, pat)
  IN IF i = 0 THEN s
     ELSE SubSeq(s, 1, i - 1) \o rep \o From(s, i + Len(pat))

\* the index of the first "/" of s at or after index i; 0 when there is none
RECURSIVE NextSlash(_, _)
NextSlash(s, i) ==
  IF i > Len(s) THEN 0
  ELSE IF s[i] = "/" THEN i
  ELSE NextSlash(s, i + 1)

---------------------------------------------------------------------------
(* NewSettingsWarning: the patterns and the literals *)

SettingsOrganization == <<"/","s","e","t","t","i","n","g","s","/","o","r","g","a","n","i","z","a","t","i","o","n","/">> (* "/settings/organization/" *)
ProjectInfix == <<"/","p","r","o","j","e","c","t","/">> (* "/project/" *)
SettingsAccount == <<"/","s","e","t","t","i","n","g","s","/","a","c","c","o","u","n","t","/">> (* "/settings/account/" *)
Slash == <<"/">> (* "/" *)
SettingsSlash == <<"s","e","t","t","i","n","g","s","/">> (* "settings/" *)
AccountSettings == <<"/","a","c","c","o","u","n","t","/","s","e","t","t","i","n","g","s","/">> (* "/account/settings/" *)
Organizations == <<"/","o","r","g","a","n","i","z","a","t","i","o","n","s","/">> (* "/organizations/" *)
Details == <<"d","e","t","a","i","l","s","/">> (* "details/" *)
SettingsCloseAccount == <<"s","e","t","t","i","n","g","s","/","c","l","o","s","e","-","a","c","c","o","u","n","t","/">> (* "settings/close-account/" *)
CloseAccount == <<"c","l","o","s","e","-","a","c","c","o","u","n","t","/">> (* "close-account/" *)
Remove == <<"r","e","m","o","v","e","/">> (* "remove/" *)
AccountSettingsApi == <<"a","c","c","o","u","n","t","/","s","e","t","t","i","n","g","s","/","a","p","i","/">> (* "account/settings/api/" *)
Api == <<"a","p","i","/">> (* "api/" *)
AuthTokens == <<"a","u","t","h","-","t","o","k","e","n","s","/">> (* "auth-tokens/" *)
Empty == << >>
SlashAuthSlash == <<"/","a","u","t","h","/">> (* "/auth/" *)
SlashAccountSlash == <<"/","a","c","c","o","u","n","t","/">> (* "/account/" *)

NoMatch == [matched |-> FALSE, g1 |-> Empty, g2 |-> Empty, last |-> 0]

\* /^\/settings\/organization\/([^\/]+)\/project\/([^\/]+)\// on s: the two
\* groups and the index of the last character matched.  A group holds no "/",
\* so it ends at the next "/" and backtracking cannot find another match.
ProjectRegexExec(s) ==
  IF ~MatchesAt(s, 1, SettingsOrganization) THEN NoMatch
  ELSE LET b1 == Len(SettingsOrganization) + 1
           e1 == NextSlash(s, b1)
       IN IF e1 = 0 \/ e1 = b1 \/ ~MatchesAt(s, e1, ProjectInfix) THEN NoMatch
          ELSE LET b2 == e1 + Len(ProjectInfix)
                   e2 == NextSlash(s, b2)
               IN IF e2 = 0 \/ e2 = b2 THEN NoMatch
                  ELSE [matched |-> TRUE, g1 |-> SubSeq(s, b1, e1 - 1),
                        g2 |-> SubSeq(s, b2, e2 - 1), last |-> e2]

\* /^\/settings\/account\/([^\/]+)\// on s
AccountRegexExec(s) ==
  IF ~MatchesAt(s, 1, SettingsAccount) THEN NoMatch
  ELSE LET b1 == Len(SettingsAccount) + 1
           e1 == NextSlash(s, b1)
       IN IF e1 = 0 \/ e1 = b1 THEN NoMatch
          ELSE [matched |-> TRUE, g1 |-> SubSeq(s, b1, e1 - 1),
                g2 |-> Empty, last |-> e1]

\* projectRegex.test(location.pathname), accountRegex.test(location.pathname):
\* test() converts its argument to a string, undefined included
IsProject(pathname) == ProjectRegexExec(ToString(pathname)).matched
IsAccount(pathname) == AccountRegexExec(ToString(pathname)).matched

\* a variant with the two groups in each other's place: '/$2/$1/settings/'
ProjectReplaceMutant(s) ==
  LET m == ProjectRegexExec(s)
  IN IF ~m.matched THEN s
     ELSE Slash \o m.g2 \o Slash \o m.g1 \o Slash \o SettingsSlash \o From(s, m.last + 1)

\* pathname.replace(projectRegex, '/$1/$2/settings/')
ProjectReplace(s) ==
  LET m == ProjectRegexExec(s)
  IN IF ~m.matched THEN s
     ELSE Slash \o m.g1 \o Slash \o m.g2 \o Slash \o SettingsSlash \o From(s, m.last + 1)

\* pathname.replace(accountRegex, '/account/settings/$1/')
AccountRegexReplace(s) ==
  LET m == AccountRegexExec(s)
  IN IF ~m.matched THEN s
     ELSE AccountSettings \o m.g1 \o Slash \o From(s, m.last + 1)

\* the four string replacements that follow, one operator each, in the
\* order of the chain: .replace('details/', ''),
\* .replace('settings/close-account/', 'remove/'),
\* .replace('account/settings/api/', 'api/'), .replace('auth-tokens/', '')
RemoveDetails(s) == ReplaceFirst(s, Details, Empty)
\* a variant that leaves the settings/ segment: .replace('close-account/', 'remove/')
RewriteCloseAccountMutant(s) == ReplaceFirst(s, CloseAccount, Remove)
RewriteCloseAccount(s) == ReplaceFirst(s, SettingsCloseAccount, Remove)
\* a variant that leaves the account/ segment: .replace('settings/api/', 'api/')
RewriteApiMutant(s) == ReplaceFirst(s, <<"s","e","t","t","i","n","g","s","/","a","p","i","/">> (* "settings/api/" *), Api)
RewriteApi(s) == ReplaceFirst(s, AccountSettingsApi, Api)
RemoveAuthTokens(s) == ReplaceFirst(s, AuthTokens, Empty)

\* a variant with the api/ rewrite and the details/ removal in each other's place
AccountChainMutant(s) ==
  LET a == AccountRegexReplace(s)
      b == RewriteApi(a)
      c == RewriteCloseAccount(b)
      d == RemoveDetails(c)
      e == RemoveAuthTokens(d)
  IN <<a, b, c, d, e>>

\* the chain of the account branch: the value after each of its five calls
AccountChain(s) ==
  LET a == AccountRegexReplace(s)
      b == RemoveDetails(a)
      c == RewriteCloseAccount(b)
      d == RewriteApi(c)
      e == RemoveAuthTokens(d)
  IN <<a, b, c, d, e>>

\* a variant whose pattern lacks the ^ anchor
DefaultReplaceMutant(s) == ReplaceFirst(s, SettingsOrganization, Organizations)

\* pathname.replace(/^\/settings\/organization\//, '/organizations/')
DefaultReplace(s) ==
  IF MatchesAt(s, 1, SettingsOrganization)
  THEN Organizations \o From(s, Len(SettingsOrganization) + 1)
  ELSE s

---------------------------------------------------------------------------
(* NewSettingsWarning: the render *)

\* let NewSettingsWarning = ({location = {}}) => ...: the default applies
\* when the prop is undefined, and the object it gives has no pathname
Location(prop) == IF prop = Undefined THEN [pathname |-> Undefined] ELSE TheValue(prop)

\* location.pathname.replace(...) on a pathname that is undefined: reading
\* the property replace of undefined throws a TypeError
Throws(pathname) == pathname = Undefined

\* the if / else if / else that assigns oldLocation, as the values of the
\* chain of .replace calls of the branch taken
ReplaceChain(pathname) ==
  IF IsProject(pathname) THEN <<ProjectReplace(TheValue(pathname))>>
  ELSE IF IsAccount(pathname) THEN AccountChain(TheValue(pathname))
  ELSE <<DefaultReplace(TheValue(pathname))>>

\* oldLocation is what the last call of the chain returned
OldLocation(pathname) ==
  LET chain == ReplaceChain(pathname) IN chain[Len(chain)]

\* a variant that tests oldLocation instead of location.pathname
IsRouterMutant(pathname) ==
  ~(Includes(OldLocation(pathname), SlashAuthSlash)
      \/ Includes(OldLocation(pathname), SlashAccountSlash))

\* let isRouter = !/\/(auth|account)\//.test(location.pathname)
IsRouter(pathname) ==
  LET s == ToString(pathname)
  IN ~(Includes(s, SlashAuthSlash) \/ Includes(s, SlashAccountSlash))

\* let linkProps = {href: isRouter ? undefined : oldLocation,
\*                  to: isRouter ? oldLocation : undefined}
LinkProps(router, old) ==
  [href |-> IF router THEN Undefined ELSE Some(old),
   to |-> IF router THEN Some(old) ELSE Undefined]

\* let LinkWithFallback = isRouter ? Link : 'a'
LinkElement(router) == IF router THEN "Link" ELSE "a"

NoLinkProps == [href |-> Undefined, to |-> Undefined]

\* SettingsLayout.render renders <NewSettingsWarning location={this.props.location} />
NewSettingsWarning ==
  /\ status = "pending"
  /\ LET pathname == Location(propsLocation).pathname
     IN IF Throws(pathname)
        THEN /\ status' = "TypeError"
             /\ UNCHANGED <<oldLocation, replaceChain, isRouter, linkProps, LinkWithFallback>>
        ELSE /\ status' = "rendered"
             /\ replaceChain' = ReplaceChain(pathname)
             /\ oldLocation' = Some(OldLocation(pathname))
             /\ isRouter' = IsRouter(pathname)
             /\ linkProps' = LinkProps(IsRouter(pathname), OldLocation(pathname))
             /\ LinkWithFallback' = LinkElement(IsRouter(pathname))
  /\ UNCHANGED <<propsLocation, projectVars, teamVars, params>>

---------------------------------------------------------------------------
(* The pathnames the router hands to the layout *)

Acme == <<"a","c","m","e">> (* "acme" *)
Web == <<"w","e","b">> (* "web" *)
OrgIds == {Acme, <<"o">> (* "o" *)}
ProjectIds == {Web, <<"p">> (* "p" *)}

ProjectHead(org, proj) == SettingsOrganization \o org \o ProjectInfix \o proj \o Slash

Heads ==
  {Empty, Slash, SettingsOrganization, SettingsAccount}
    \cup {ProjectHead(o, p) : o \in OrgIds, p \in ProjectIds}

Pieces ==
  {Details, Api, AuthTokens, CloseAccount, <<"a","c","c","o","u","n","t","/">> (* "account/" *), <<"a","u","t","h","/">> (* "auth/" *),
   <<"t","e","a","m","s","/">> (* "teams/" *), <<"a","c","m","e","/">> (* "acme/" *), <<"p","r","o","j","e","c","t","/">> (* "project/" *), SettingsSlash, <<"s","e","t","t","i","n","g","s","/","o","r","g","a","n","i","z","a","t","i","o","n","/">> (* "settings/organization/" *),
   <<"m","y">> (* "my" *), Slash}

RECURSIVE Tails(_)
Tails(n) ==
  IF n = 0 THEN {Empty}
  ELSE LET shorter == Tails(n - 1)
       IN shorter \cup {t \o p : t \in shorter, p \in Pieces}

Pathnames == {h \o t : h \in Heads, t \in Tails(MaxTail)}

\* this.props.location: not passed, an object without pathname, or a location
Locations ==
  {Undefined, Some([pathname |-> Undefined])}
    \cup {Some([pathname |-> Some(p)]) : p \in Pathnames}

IdleParams == [orgId |-> Acme, projectId |-> Web, teamId |-> Empty]
IdleOrganization == [access |-> {}]
IdleProject == [isInternal |-> FALSE]
IdleModel == [slug |-> Empty, name |-> Empty]

LayoutIdle ==
  /\ propsLocation = Undefined
  /\ status = "unmounted"
  /\ oldLocation = Undefined
  /\ replaceChain = << >>
  /\ isRouter = TRUE
  /\ linkProps = NoLinkProps
  /\ LinkWithFallback = "Link"

ProjectIdle ==
  /\ organization = IdleOrganization
  /\ project = IdleProject
  /\ projectAdmin = << >>

TeamIdle ==
  /\ model = IdleModel
  /\ saved = << >>
  /\ effects = << >>
  /\ state = [loading |-> FALSE]

Init ==
  /\ propsLocation \in Locations
  /\ status = "pending"
  /\ oldLocation = Undefined
  /\ replaceChain = << >>
  /\ isRouter = TRUE
  /\ linkProps = NoLinkProps
  /\ LinkWithFallback = "Link"
  /\ params = IdleParams
  /\ ProjectIdle
  /\ TeamIdle

Next == NewSettingsWarning

Spec == Init /\ [][Next]_vars

---------------------------------------------------------------------------
(* ProjectGeneralSettings: the "Project Administration" panel *)

NoPermissionToRemove == "You do not have the required permission to remove this project."
NoPermissionToTransfer == "You do not have the required permission to transfer this project."
InternalProject == "This project cannot be removed. It is used internally by the Sentry server."
RemoveHelp == "Remove the project and all related data. Careful, this action cannot be undone."
TransferHelp == "Transfer the project and all related data. Careful, this action cannot be undone."

SettingsRemove == <<"/","s","e","t","t","i","n","g","s","/","r","e","m","o","v","e","/">> (* "/settings/remove/" *)
SettingsTransfer == <<"/","s","e","t","t","i","n","g","s","/","t","r","a","n","s","f","e","r","/">> (* "/settings/transfer/" *)

\* getOrganizationState(this.context.organization).getAccess().has('project:admin')
IsProjectAdmin(org) == "project:admin" \in org.access

\* `/${orgId}/${projectId}/settings/remove/`
RemoveHref(p) == Slash \o p.orgId \o Slash \o p.projectId \o SettingsRemove

\* `/${orgId}/${projectId}/settings/transfer/`
TransferHref(p) == Slash \o p.orgId \o Slash \o p.projectId \o SettingsTransfer

\* renderRemoveProject(): the help text of the row and the href of its link,
\* undefined when the row holds no link
RenderRemoveProject(org, proj, p) ==
  IF ~IsProjectAdmin(org) THEN [help |-> NoPermissionToRemove, href |-> Undefined]
  ELSE IF proj.isInternal THEN [help |-> InternalProject, href |-> Undefined]
  ELSE [help |-> RemoveHelp, href |-> Some(RemoveHref(p))]

\* a variant without the isInternal branch
RenderTransferProjectMutant(org, proj, p) ==
  IF ~IsProjectAdmin(org) THEN [help |-> NoPermissionToTransfer, href |-> Undefined]
  ELSE [help |-> TransferHelp, href |-> Some(TransferHref(p))]

\* renderTransferProject()
RenderTransferProject(org, proj, p) ==
  IF ~IsProjectAdmin(org) THEN [help |-> NoPermissionToTransfer, href |-> Undefined]
  ELSE IF proj.isInternal THEN [help |-> InternalProject, href |-> Undefined]
  ELSE [help |-> TransferHelp, href |-> Some(TransferHref(p))]

\* renderBody(): the panel holds the two rows, in this order
RenderBody ==
  /\ projectAdmin = << >>
  /\ projectAdmin' = <<RenderRemoveProject(organization, project, params),
                       RenderTransferProject(organization, project, params)>>
  /\ UNCHANGED <<organization, project, params, layoutVars, teamVars>>

AccessScopes == {"project:admin", "project:write", "team:admin", "org:read"}

InitProject ==
  /\ organization \in [access : SUBSET AccessScopes]
  /\ project \in [isInternal : BOOLEAN]
  /\ params \in [orgId : OrgIds, projectId : ProjectIds, teamId : {Empty}]
  /\ projectAdmin = << >>
  /\ LayoutIdle
  /\ TeamIdle

NextProject == RenderBody

SpecProject == InitProject /\ [][NextProject]_vars

---------------------------------------------------------------------------
(* TeamSettings: handleSubmitSuccess *)

SlugChanged == <<"S","l","u","g"," ","c","h","a","n","g","e","d",","," ","r","e","f","r","e","s","h","i","n","g"," ","p","a","g","e",".",".",".">> (* "Slug changed, refreshing page..." *)
TeamsInfix == <<"/","t","e","a","m","s","/">> (* "/teams/" *)
SettingsSuffix == <<"/","s","e","t","t","i","n","g","s","/">> (* "/settings/" *)
LoadingTrue == <<"{","l","o","a","d","i","n","g",":"," ","t","r","u","e","}">> (* "{loading: true}" *)

\* a variant that takes the slug of the route (the old one) instead of the model's
TeamSettingsUrlMutant(p, m, id) ==
  SettingsOrganization \o p.orgId \o TeamsInfix \o p.teamId \o SettingsSuffix

\* `/settings/organization/${this.props.params.orgId}/teams/${model.getValue(id)}/settings/`
TeamSettingsUrl(p, m, id) ==
  SettingsOrganization \o p.orgId \o TeamsInfix \o m[id] \o SettingsSuffix

Call(op, arg) == [op |-> op, arg |-> arg]

\* the body of if (id === 'slug') { ... }: its four calls, in order
SlugEffects(p, m, id) ==
  <<Call("addLoadingMessage", SlugChanged),
    Call("window.location.assign", TeamSettingsUrl(p, m, id)),
    Call("router.push", TeamSettingsUrl(p, m, id)),
    Call("setState", LoadingTrue)>>

\* handleSubmitSuccess = (resp, model, id, change) => { if (id === 'slug') ... },
\* called by the Form (onSubmitSuccess) after it saved field id
HandleSubmitSuccess(id) ==
  /\ Len(saved) < MaxSubmits
  /\ saved' = Append(saved, id)
  /\ IF id = "slug"
     THEN /\ effects' = effects \o SlugEffects(params, model, id)
          /\ state' = [state EXCEPT !.loading = TRUE]
     ELSE UNCHANGED <<effects, state>>
  /\ UNCHANGED <<model, params, layoutVars, projectVars>>

\* the fields of the team form: initialData's name and slug
FieldIds == {"name", "slug"}

TeamSlugs == {<<"w","e","b","-","t","e","a","m">> (* "web-team" *), <<"o","p","s">> (* "ops" *)}
TeamNames == {<<"W","e","b">> (* "Web" *), <<"O","p","s">> (* "Ops" *)}

InitTeam ==
  /\ params \in [orgId : OrgIds, projectId : {Web}, teamId : TeamSlugs]
  /\ model \in [slug : TeamSlugs, name : TeamNames]
  /\ saved = << >>
  /\ effects = << >>
  /\ state = [loading |-> FALSE]
  /\ LayoutIdle
  /\ ProjectIdle

NextTeam == \E id \in FieldIds : HandleSubmitSuccess(id)

SpecTeam == InitTeam /\ [][NextTeam]_vars

---------------------------------------------------------------------------
(* What the claims speak of, stated on the pathname itself *)

Rendered == status = "rendered"

\* the pathname the layout was given, and the legacy path it rendered
Pathname == TheValue(TheValue(propsLocation).pathname)
Legacy == TheValue(oldLocation)

NoSlash(s) == \A k \in 1..Len(s) : s[k] # "/"

EndsWith(s, suffix) ==
  Len(suffix) <= Len(s) /\ MatchesAt(s, Len(s) - Len(suffix) + 1, suffix)

\* the indices e1 at which an ORG may end: p[b1..e1] is non-empty, holds no
\* "/" and is followed by /project/, b1 being the index after
\* /settings/organization/
OrgEnds(p) ==
  LET b1 == Len(SettingsOrganization) + 1
  IN IF ~MatchesAt(p, 1, SettingsOrganization) THEN {}
     ELSE {e1 \in b1..Len(p) :
             NoSlash(SubSeq(p, b1, e1)) /\ MatchesAt(p, e1 + 1, ProjectInfix)}

\* the indices e2 at which a PROJ that starts after p[e1 + 1..] = /project/
\* may end: non-empty, without "/", followed by "/"
ProjEnds(p, e1) ==
  LET b2 == e1 + 1 + Len(ProjectInfix)
  IN {e2 \in b2..Len(p) : NoSlash(SubSeq(p, b2, e2)) /\ MatchesAt(p, e2 + 1, Slash)}

\* p is /settings/organization/ORG/project/PROJ/REST, ORG and PROJ non-empty
\* and without "/"
ProjectShaped(p) == \E e1 \in OrgEnds(p) : ProjEnds(p, e1) # {}

\* p is /settings/account/SECTION/REST with SECTION non-empty and without "/"
AccountShaped(p) ==
  /\ MatchesAt(p, 1, SettingsAccount)
  /\ \E e1 \in (Len(SettingsAccount) + 1)..Len(p) :
       /\ NoSlash(SubSeq(p, Len(SettingsAccount) + 1, e1))
       /\ MatchesAt(p, e1 + 1, Slash)

---------------------------------------------------------------------------
(* The claims *)

\* C1: for every pathname /settings/organization/ORG/project/PROJ/REST (ORG
\* and PROJ non-empty, without "/"; REST anything, empty included) the legacy
\* path is /ORG/PROJ/settings/REST.
C1_ProjectRule ==
  Rendered =>
    \A e1 \in OrgEnds(Pathname) :
      \A e2 \in ProjEnds(Pathname, e1) :
        LET org == SubSeq(Pathname, Len(SettingsOrganization) + 1, e1)
            proj == SubSeq(Pathname, e1 + 1 + Len(ProjectInfix), e2)
            rest == From(Pathname, e2 + 2)
        IN Legacy = Slash \o org \o Slash \o proj \o Slash \o SettingsSlash \o rest

\* C1 witness: a project path whose REST holds /account/ and auth-tokens/ was
\* rendered, and only its head was rewritten.
C1_Witness ==
  /\ Rendered
  /\ Pathname = <<"/","s","e","t","t","i","n","g","s","/","o","r","g","a","n","i","z","a","t","i","o","n","/","o","/","p","r","o","j","e","c","t","/","w","e","b","/","a","c","c","o","u","n","t","/","a","u","t","h","-","t","o","k","e","n","s","/">> (* "/settings/organization/o/project/web/account/auth-tokens/" *)
  /\ Legacy = <<"/","o","/","w","e","b","/","s","e","t","t","i","n","g","s","/","a","c","c","o","u","n","t","/","a","u","t","h","-","t","o","k","e","n","s","/">> (* "/o/web/settings/account/auth-tokens/" *)

\* C2 as stated: /settings/account/close-account/ gives /account/settings/remove/.
C2_AsStated ==
  (Rendered /\ Pathname = <<"/","s","e","t","t","i","n","g","s","/","a","c","c","o","u","n","t","/","c","l","o","s","e","-","a","c","c","o","u","n","t","/">> (* "/settings/account/close-account/" *))
    => Legacy = <<"/","a","c","c","o","u","n","t","/","s","e","t","t","i","n","g","s","/","r","e","m","o","v","e","/">> (* "/account/settings/remove/" *)

\* C2 amended: /settings/account/close-account/ gives /account/remove/ (the
\* replaced substring settings/close-account/ takes the settings/ segment with it).
C2_CloseAccount ==
  (Rendered /\ Pathname = <<"/","s","e","t","t","i","n","g","s","/","a","c","c","o","u","n","t","/","c","l","o","s","e","-","a","c","c","o","u","n","t","/">> (* "/settings/account/close-account/" *))
    => /\ replaceChain[1] = <<"/","a","c","c","o","u","n","t","/","s","e","t","t","i","n","g","s","/","c","l","o","s","e","-","a","c","c","o","u","n","t","/">> (* "/account/settings/close-account/" *)
       /\ Legacy = <<"/","a","c","c","o","u","n","t","/","r","e","m","o","v","e","/">> (* "/account/remove/" *)

\* C2 witness: that pathname was rendered.
C2_Witness ==
  /\ Rendered
  /\ Pathname = <<"/","s","e","t","t","i","n","g","s","/","a","c","c","o","u","n","t","/","c","l","o","s","e","-","a","c","c","o","u","n","t","/">> (* "/settings/account/close-account/" *)
  /\ Len(replaceChain) = 5

\* C3: /settings/account/api/ first becomes /account/settings/api/; the
\* replacement of account/settings/api/ by api/ makes it /api/; the other three
\* replacements change nothing.
C3_Api ==
  (Rendered /\ Pathname = <<"/","s","e","t","t","i","n","g","s","/","a","c","c","o","u","n","t","/","a","p","i","/">> (* "/settings/account/api/" *))
    => /\ replaceChain = <<<<"/","a","c","c","o","u","n","t","/","s","e","t","t","i","n","g","s","/","a","p","i","/">> (* "/account/settings/api/" *), <<"/","a","c","c","o","u","n","t","/","s","e","t","t","i","n","g","s","/","a","p","i","/">> (* "/account/settings/api/" *),
                           <<"/","a","c","c","o","u","n","t","/","s","e","t","t","i","n","g","s","/","a","p","i","/">> (* "/account/settings/api/" *), <<"/","a","p","i","/">> (* "/api/" *), <<"/","a","p","i","/">> (* "/api/" *)>>
       /\ Legacy = <<"/","a","p","i","/">> (* "/api/" *)

\* C3 witness: that pathname was rendered through the account branch.
C3_Witness ==
  /\ Rendered
  /\ Pathname = <<"/","s","e","t","t","i","n","g","s","/","a","c","c","o","u","n","t","/","a","p","i","/">> (* "/settings/account/api/" *)
  /\ Len(replaceChain) = 5
  /\ replaceChain[3] # replaceChain[4]

\* C4: a pathname of neither the project nor the account shape has its leading
\* /settings/organization/ replaced by /organizations/ and is otherwise
\* unchanged; without that leading prefix it is unchanged altogether, an
\* occurrence further in never being rewritten.
C4_DefaultRule ==
  (Rendered /\ ~ProjectShaped(Pathname) /\ ~AccountShaped(Pathname))
    => /\ Legacy = IF MatchesAt(Pathname, 1, SettingsOrganization)
                   THEN Organizations \o From(Pathname, Len(SettingsOrganization) + 1)
                   ELSE Pathname
       /\ Pathname = <<"/","s","e","t","t","i","n","g","s","/","o","r","g","a","n","i","z","a","t","i","o","n","/","a","c","m","e","/","t","e","a","m","s","/">> (* "/settings/organization/acme/teams/" *)
            => Legacy = <<"/","o","r","g","a","n","i","z","a","t","i","o","n","s","/","a","c","m","e","/","t","e","a","m","s","/">> (* "/organizations/acme/teams/" *)

\* C4 witness: a pathname with the prefix at its start and once more further
\* in was rendered; only the leading one was rewritten.
C4_Witness ==
  /\ Rendered
  /\ Pathname = <<"/","s","e","t","t","i","n","g","s","/","o","r","g","a","n","i","z","a","t","i","o","n","/","s","e","t","t","i","n","g","s","/","o","r","g","a","n","i","z","a","t","i","o","n","/">> (* "/settings/organization/settings/organization/" *)
  /\ Legacy = <<"/","o","r","g","a","n","i","z","a","t","i","o","n","s","/","s","e","t","t","i","n","g","s","/","o","r","g","a","n","i","z","a","t","i","o","n","/">> (* "/organizations/settings/organization/" *)

\* C5: the link is a plain anchor exactly when the original pathname holds
\* /auth/ or /account/; the anchor carries the legacy path in href and no to,
\* the router Link carries it in to and no href; an account-shaped pathname
\* always gives the anchor.
C5_RoutingMode ==
  Rendered =>
    LET plain == \E i \in 1..Len(Pathname) :
                   MatchesAt(Pathname, i, SlashAuthSlash)
                     \/ MatchesAt(Pathname, i, SlashAccountSlash)
    IN /\ isRouter = ~plain
       /\ plain => /\ LinkWithFallback = "a"
                   /\ linkProps = [href |-> Some(Legacy), to |-> Undefined]
       /\ ~plain => /\ LinkWithFallback = "Link"
                    /\ linkProps = [href |-> Undefined, to |-> Some(Legacy)]
       /\ AccountShaped(Pathname) => plain

\* C5 witness: an account path whose legacy path no longer holds /account/ was
\* rendered as a plain anchor.
C5_Witness ==
  /\ Rendered
  /\ Pathname = <<"/","s","e","t","t","i","n","g","s","/","a","c","c","o","u","n","t","/","a","p","i","/","a","u","t","h","-","t","o","k","e","n","s","/">> (* "/settings/account/api/auth-tokens/" *)
  /\ LinkWithFallback = "a"
  /\ linkProps.href = Some(<<"/","a","p","i","/">> (* "/api/" *))

\* C6 as stated: in the account branch, when the path rewritten by the regular
\* expression does not end in the segment details/, the details/ removal leaves
\* it unchanged.
C6_OnlyTrailingDetails ==
  (Rendered /\ AccountShaped(Pathname) /\ ~EndsWith(replaceChain[1], <<"/","d","e","t","a","i","l","s","/">> (* "/details/" *)))
    => replaceChain[2] = replaceChain[1]

\* C7 as stated: the render never ends in an error, whatever location it is given.
C7_NeverThrows == status # "TypeError"

\* the account chain with the details/ removal and the api/ rewrite in each
\* other's place
OppositeOrder(x) ==
  RemoveAuthTokens(RemoveDetails(RewriteCloseAccount(RewriteApi(x))))

\* C8: the order of the details/ removal and the api/ rewrite shows: for
\* /settings/account/details/api/ the implemented order gives /api/, the
\* opposite order /account/settings/api/, because the removal creates the
\* occurrence of account/settings/api/ the rewrite then finds.  And wherever the
\* two orders of these two steps differ, the removal created the occurrence:
\* it starts before the place of the removal and ends after it.
C8_OrderMatters ==
  /\ (Rendered /\ Pathname = <<"/","s","e","t","t","i","n","g","s","/","a","c","c","o","u","n","t","/","d","e","t","a","i","l","s","/","a","p","i","/">> (* "/settings/account/details/api/" *))
       => /\ ~Includes(replaceChain[1], AccountSettingsApi)
          /\ Includes(replaceChain[2], AccountSettingsApi)
          /\ Legacy = <<"/","a","p","i","/">> (* "/api/" *)
          /\ OppositeOrder(replaceChain[1]) = <<"/","a","c","c","o","u","n","t","/","s","e","t","t","i","n","g","s","/","a","p","i","/">> (* "/account/settings/api/" *)
  /\ (Rendered /\ AccountShaped(Pathname))
       => LET x == replaceChain[1]
              cut == IndexOf(x, Details)
              found == IndexOf(replaceChain[2], AccountSettingsApi)
          IN RewriteApi(replaceChain[2]) # RemoveDetails(RewriteApi(x))
               => /\ cut # 0
                  /\ found # 0
                  /\ found < cut
                  /\ cut < found + Len(AccountSettingsApi)

\* C8 witness: that pathname was rendered, and the two orders differ on it.
C8_Witness ==
  /\ Rendered
  /\ Pathname = <<"/","s","e","t","t","i","n","g","s","/","a","c","c","o","u","n","t","/","d","e","t","a","i","l","s","/","a","p","i","/">> (* "/settings/account/details/api/" *)
  /\ Legacy # OppositeOrder(replaceChain[1])

\* C9: each of the two links is there exactly when the access set holds
\* project:admin and the project is not internal, with the hrefs
\* /ORG/PROJ/settings/remove/ and /ORG/PROJ/settings/transfer/; without the
\* permission the row says so, internal or not; so the two links are both
\* there or both missing.
C9_DangerZone ==
  projectAdmin # << >> =>
    LET remove == projectAdmin[1]
        transfer == projectAdmin[2]
        admin == "project:admin" \in organization.access
        allowed == admin /\ ~project.isInternal
        base == Slash \o params.orgId \o Slash \o params.projectId
    IN /\ remove.href # Undefined <=> allowed
       /\ transfer.href # Undefined <=> allowed
       /\ allowed => /\ remove.href = Some(base \o <<"/","s","e","t","t","i","n","g","s","/","r","e","m","o","v","e","/">> (* "/settings/remove/" *))
                     /\ transfer.href = Some(base \o <<"/","s","e","t","t","i","n","g","s","/","t","r","a","n","s","f","e","r","/">> (* "/settings/transfer/" *))
       /\ ~admin => /\ remove.help = NoPermissionToRemove
                    /\ transfer.help = NoPermissionToTransfer
       /\ (admin /\ project.isInternal) => /\ remove.help = InternalProject
                                           /\ transfer.help = InternalProject
       /\ (remove.href = Undefined) <=> (transfer.href = Undefined)

\* C9 witness: the panel of an internal project was rendered for a project
\* admin, and holds neither link.
C9_Witness ==
  /\ projectAdmin # << >>
  /\ "project:admin" \in organization.access
  /\ project.isInternal
  /\ projectAdmin[1].href = Undefined
  /\ projectAdmin[2].href = Undefined

\* what the handler is to have done after the Form reported these saves
RECURSIVE ExpectedEffects(_)
ExpectedEffects(ids) ==
  IF ids = << >> THEN << >>
  ELSE LET url == <<"/","s","e","t","t","i","n","g","s","/","o","r","g","a","n","i","z","a","t","i","o","n","/">> (* "/settings/organization/" *) \o params.orgId \o <<"/","t","e","a","m","s","/">> (* "/teams/" *)
                    \o model.slug \o <<"/","s","e","t","t","i","n","g","s","/">> (* "/settings/" *)
           front == ExpectedEffects(SubSeq(ids, 1, Len(ids) - 1))
       IN IF ids[Len(ids)] = "slug"
          THEN front \o <<[op |-> "addLoadingMessage", arg |-> SlugChanged],
                          [op |-> "window.location.assign", arg |-> url],
                          [op |-> "router.push", arg |-> url],
                          [op |-> "setState", arg |-> LoadingTrue]>>
          ELSE front

\* C10: each save of the slug makes the handler show the loading message, call
\* window.location.assign and then router.push with
\* /settings/organization/ORG/teams/NEWSLUG/settings/ and set loading, in this
\* order; a save of any other field makes it do nothing.
C10_SubmitSuccess ==
  /\ effects = ExpectedEffects(saved)
  /\ state.loading = (\E i \in 1..Len(saved) : saved[i] = "slug")

\* C10 witness: the name was saved, then the slug, and only the slug's save
\* left calls.
C10_Witness ==
  /\ saved = <<"name", "slug">>
  /\ Len(effects) = 4
  /\ effects[2].op = "window.location.assign"
  /\ effects[2].arg = effects[3].arg
  /\ state.loading

=============================================================================
